---- MODULE Spec2Model ----
(***************************************************************************)
(* Lambda import / upload command pipelines of the AWS Toolkit.            *)
(*                                                                         *)
(*   import : lambda/commands/importLambda (src/unnamed/part_000)          *)
(*   upload : src/src/lambda/commands/uploadLambda.ts                      *)
(*                                                                         *)
(* One behaviour is one invocation of one of the two commands on one       *)
(* function node, with a second command in flight that is reduced to its   *)
(* steps on the temporary workspace and the cleanup registry (otherOp).     *)
(* Every await point of the source is a pc value; the                      *)
(* events of the `request` stream, of the piped write stream and of the    *)
(* AdmZip extraction are separate actions, because the event loop runs     *)
(* them between the continuations of the command.                          *)
(* Strings the code computes with (the handler, the file name) are         *)
(* sequences of one-character strings.                                     *)
(***************************************************************************)
EXTENDS Integers, Sequences, FiniteSets, TLC

\* ---------------------------------------------------------------- bounds
\* longest handler string drawn for configuration.Handler
MaxHandlerLen == 3
\* number of chunks of the response body of the code download
BodyLen == 2
\* number of entries of the downloaded archive
NumEntries == 2

\* ------------------------------------------------------ function descriptor
HandlerChars == {"a", "b", "."}

Handlers == UNION {[1..n -> HandlerChars] : n \in 0..MaxHandlerLen}

Runtimes == {"python3.8", "nodejs12.x", "java11", "ruby2.7"}

\* RuntimeFamily of a runtime identifier (models/samLambdaRuntime)
getFamily(runtime) ==
    CASE runtime = "python3.8" -> "Python"
      [] runtime = "nodejs12.x" -> "NodeJS"
      [] OTHER -> "Other"

\* ------------------------------------------------- handler -> file name
RECURSIVE SplitRec(_, _, _)
SplitRec(s, sep, cur) ==
    IF s = <<>> THEN <<cur>>
    ELSE IF Head(s) = sep
         THEN <<cur>> \o SplitRec(Tail(s), sep, <<>>)
         ELSE SplitRec(Tail(s), sep, Append(cur, Head(s)))

\* String.prototype.split as lodash's _.split calls it: "" gives [""]
split(s, sep) == SplitRec(s, sep, <<>>)

\* mutant of initial: drops the first element instead of the last
initialDropsFirst(arr) == IF arr = <<>> THEN <<>> ELSE Tail(arr)

\* _.initial: all but the last element
initial(arr) == IF arr = <<>> THEN <<>> ELSE SubSeq(arr, 1, Len(arr) - 1)

RECURSIVE join(_, _)
\* _.join
join(arr, sep) ==
    IF arr = <<>> THEN <<>>
    ELSE IF Len(arr) = 1 THEN arr[1]
         ELSE arr[1] \o <<sep>> \o join(Tail(arr), sep)

\* the switch on the runtime family; "" is the default branch, which throws
runtimeExtension(runtime) ==
    CASE getFamily(runtime) = "Python" -> <<"p", "y">>
      [] getFamily(runtime) = "NodeJS" -> <<"j", "s">>
      [] OTHER -> <<>>

\* the file name the code builds from the handler and the extension
fileNameOf(conf) ==
    join(initial(split(conf.Handler, ".")), ".")
        \o <<".">> \o runtimeExtension(conf.Runtime)

\* mutant of getLambdaFileNameFromHandler: the default branch does not throw
getLambdaFileNameNoDefaultThrow(conf) ==
    [state |-> "ok", fileName |-> fileNameOf(conf), error |-> ""]

\* state "ok" with the file name, or state "threw" (the default branch) with
\* the runtime identifier the error message ends with
getLambdaFileNameFromHandler(conf) ==
    IF getFamily(conf.Runtime) \notin {"Python", "NodeJS"}
    THEN [state |-> "threw", fileName |-> <<>>, error |-> conf.Runtime]
    ELSE [state |-> "ok", fileName |-> fileNameOf(conf), error |-> ""]

\* ------------------------------------------------------------------ state
VARIABLES
    configuration,  \* functionNode.configuration: [Handler, Runtime]
    cmd,            \* "none" | "import" | "upload"
    pc,             \* position of the command (its pending await)
    result,         \* telemetry.Result the run* function returned, or "none"
    telemetry,      \* result handed to telemetry.record..., or "none"
    resolved,       \* outcome of getLambdaFileNameFromHandler in this command
    trace,          \* calls made to collaborators, in order
    progress,       \* increments passed to progress.report, in order
    tempFolder,     \* 1 once makeTemporaryToolkitFolder returned, else 0
    registry,       \* folders added to ExtensionDisposableFiles
    reqState,       \* request.get: "idle" | "started" | "responded" | "complete" | "error"
    bodyIsZip,      \* the response body is a zip archive
    received,       \* chunks of the body the response has delivered to pipe()
    written,        \* chunks the write stream has written to function.zip
    dlResolved,     \* the download promise (line 147) is resolved
    admZipRead,     \* chunks in function.zip when new AdmZip read it, -1 before
    extractState,   \* extractAllToAsync: "none" | "running" | "done" | "error"
    destEntries,    \* archive entries written to importLocation
    uncaught,       \* exceptions thrown out of event callbacks
    uploadType,     \* "none" | "zip" | "dir" | "build"
    otherOp         \* a second import/upload in flight: "idle" | "mkTemp" |
                    \* "registered" | "written" | "noFolder"

vars == <<configuration, cmd, pc, result, telemetry, resolved, trace, progress,
          tempFolder, registry, reqState, bodyIsZip, received, written,
          dlResolved, admZipRead, extractState, destEntries, uncaught,
          uploadType, otherOp>>

downloadVars == <<reqState, bodyIsZip, received, written, dlResolved>>
extractVars == <<admZipRead, extractState, destEntries>>
tempVars == <<tempFolder, registry, otherOp>>

\* the temporary folder of this command and the one of the second command
ThisFolder == 1
OtherFolder == 2

\* ExtensionDisposableFiles.addFolder: the folder joins the registered ones
addFolder(reg, folder) == reg \cup {folder}

Has(e) == \E i \in 1..Len(trace) : trace[i] = e

Count(e) == Cardinality({i \in 1..Len(trace) : trace[i] = e})

\* position of the first occurrence of e in the trace, 0 if there is none
FirstIndex(e) ==
    IF Has(e) THEN CHOOSE i \in 1..Len(trace) :
                      trace[i] = e /\ \A j \in 1..(i - 1) : trace[j] # e
    ELSE 0

Init ==
    /\ configuration \in [Handler : Handlers, Runtime : Runtimes]
    /\ cmd = "none"
    /\ pc = "idle"
    /\ result = "none"
    /\ telemetry = "none"
    /\ resolved = [state |-> "unset", fileName |-> <<>>, error |-> ""]
    /\ trace = <<>>
    /\ progress = <<>>
    /\ tempFolder = 0
    /\ registry = {}
    /\ reqState = "idle"
    /\ bodyIsZip = FALSE
    /\ received = 0
    /\ written = 0
    /\ dlResolved = FALSE
    /\ admZipRead = -1
    /\ extractState = "none"
    /\ destEntries = 0
    /\ uncaught = 0
    /\ uploadType = "none"
    /\ otherOp = "idle"


\* ------------------------------------------------------------ import command
Log(e) == trace' = Append(trace, e)

Log2(e, f) == trace' = trace \o <<e, f>>

\* mutant of ImportCatchResult: every caught error is reported as a failure
ImportCatchAlwaysFailed(isImportError) == "Failed"

\* mutant of ImportCatchResult: every caught error is swallowed
ImportCatchAlwaysSucceeded(isImportError) == "Succeeded"

\* the catch of runImportLambda: only an ImportError is a failure
ImportCatchResult(isImportError) ==
    IF isImportError THEN "Failed" ELSE "Succeeded"

\* the catch of downloadAndUnzipLambda followed by the catch of
\* runImportLambda: the message is shown, ImportError is thrown and caught
ImportErrorCaught(e) ==
    /\ Log2(e, "showErrorMessage")
    /\ result' = ImportCatchResult(TRUE)
    /\ pc' = "i_return"

\* importLambdaCommand -> runImportLambda up to its first await
ImportLambdaCommand ==
    /\ pc = "idle"
    /\ cmd' = "import"
    /\ \E hasWorkspaceFolders \in BOOLEAN :
          IF hasWorkspaceFolders
          THEN /\ pc' = "i_location"
               /\ Log("promptUserForLocation")
               /\ UNCHANGED result
          ELSE /\ pc' = "i_return"
               /\ Log("showErrorMessage:noWorkspaceFolders")
               /\ result' = "Cancelled"
    /\ UNCHANGED <<configuration, telemetry, resolved, progress, tempVars,
                   downloadVars, extractVars, uncaught, uploadType>>

\* promptUserForLocation returned; fs.pathExists(importLocation) is awaited,
\* and showConfirmationMessage is called when the directory exists
ImportLocationSelected ==
    /\ pc = "i_location"
    /\ \E selected \in BOOLEAN, pathExists \in BOOLEAN :
          IF ~selected
          THEN /\ pc' = "i_return"
               /\ result' = "Cancelled"
               /\ Log("location:none")
          ELSE IF pathExists
               THEN /\ pc' = "i_confirm"
                    /\ Log("prompt:overwrite")
                    /\ UNCHANGED result
               ELSE /\ pc' = "i_withProgress"
                    /\ UNCHANGED <<result, trace>>
    /\ UNCHANGED <<configuration, cmd, telemetry, resolved, progress, tempVars,
                   downloadVars, extractVars, uncaught, uploadType>>

\* mutant of ImportOverwriteAnswered: the answer is not looked at
ImportOverwriteIgnored ==
    /\ pc = "i_confirm"
    /\ \E isConfirmed \in BOOLEAN :
          /\ pc' = "i_withProgress"
          /\ Log(IF isConfirmed THEN "overwrite:confirmed"
                 ELSE "overwrite:declined")
          /\ UNCHANGED result
    /\ UNCHANGED <<configuration, cmd, telemetry, resolved, progress,
                   tempVars, downloadVars, extractVars, uncaught, uploadType>>

\* the answer to the overwrite confirmation
ImportOverwriteAnswered ==
    /\ pc = "i_confirm"
    /\ \E isConfirmed \in BOOLEAN :
          IF isConfirmed
          THEN /\ pc' = "i_withProgress"
               /\ Log("overwrite:confirmed")
               /\ UNCHANGED result
          ELSE /\ pc' = "i_return"
               /\ Log("overwrite:declined")
               /\ result' = "Cancelled"
    /\ UNCHANGED <<configuration, cmd, telemetry, resolved, progress,
                   tempVars, downloadVars, extractVars, uncaught, uploadType>>

\* the withProgress callback up to the first await of downloadAndUnzipLambda.
\* getLambdaFileNameFromHandler is called before the try block: when it
\* throws, the callback rejects and so does importLambdaCommand.
ImportWithProgress ==
    /\ pc = "i_withProgress"
    /\ resolved' = getLambdaFileNameFromHandler(configuration)
    /\ IF resolved'.state = "threw"
       THEN /\ pc' = "rejected"
            /\ UNCHANGED trace
       ELSE /\ pc' = "i_mkTemp"
            /\ Log2("downloadAndUnzipLambda", "makeTemporaryToolkitFolder")
    /\ UNCHANGED <<configuration, cmd, result, telemetry, progress, tempVars,
                   downloadVars, extractVars, uncaught, uploadType>>

\* mutant of ImportTempFolder: the folder goes into a registry of its own
\* instead of the shared instance
ImportTempFolderOwnRegistry ==
    /\ pc = "i_mkTemp"
    /\ \E ok \in BOOLEAN :
          IF ok
          THEN /\ tempFolder' = ThisFolder
               /\ registry' = addFolder({}, ThisFolder)
               /\ UNCHANGED otherOp
               /\ Log2("addFolder", "getFunction")
               /\ pc' = "i_getFunction"
               /\ UNCHANGED result
          ELSE /\ ImportErrorCaught("makeTemporaryToolkitFolder:throw")
               /\ UNCHANGED tempVars
    /\ UNCHANGED <<configuration, cmd, telemetry, resolved, progress,
                   downloadVars, extractVars, uncaught, uploadType>>

\* makeTemporaryToolkitFolder returned or threw; then addFolder, getFunction
ImportTempFolder ==
    /\ pc = "i_mkTemp"
    /\ \E ok \in BOOLEAN :
          IF ok
          THEN /\ tempFolder' = ThisFolder
               /\ registry' = addFolder(registry, ThisFolder)
               /\ UNCHANGED otherOp
               /\ Log2("addFolder", "getFunction")
               /\ pc' = "i_getFunction"
               /\ UNCHANGED result
          ELSE /\ ImportErrorCaught("makeTemporaryToolkitFolder:throw")
               /\ UNCHANGED tempVars
    /\ UNCHANGED <<configuration, cmd, telemetry, resolved, progress,
                   downloadVars, extractVars, uncaught, uploadType>>

\* lambda.getFunction returned or threw; then report 10 and start request.get
ImportGetFunction ==
    /\ pc = "i_getFunction"
    /\ \E ok \in BOOLEAN :
          IF ok
          THEN /\ progress' = Append(progress, 10)
               /\ Log("request.get")
               /\ reqState' = "started"
               /\ pc' = "i_awaitDownload"
               /\ UNCHANGED result
          ELSE /\ ImportErrorCaught("getFunction:throw")
               /\ UNCHANGED <<progress, reqState>>
    /\ UNCHANGED <<configuration, cmd, telemetry, resolved, tempVars,
                   bodyIsZip, received, written, dlResolved, extractVars,
                   uncaught, uploadType>>

\* mutant of ReqResponse: the 'response' handler also reports an increment
ReqResponseReports ==
    /\ reqState = "started"
    /\ reqState' = "responded"
    /\ bodyIsZip' \in BOOLEAN
    /\ progress' = Append(progress, 10)
    /\ UNCHANGED <<configuration, cmd, pc, result, telemetry, resolved, trace,
                   tempVars, received, written, dlResolved,
                   extractVars, uncaught, uploadType>>

\* request 'response' event: only logs.  The body is a zip archive, or it
\* is not (the error document of a non-2xx response).
ReqResponse ==
    /\ reqState = "started"
    /\ reqState' = "responded"
    /\ bodyIsZip' \in BOOLEAN
    /\ UNCHANGED <<configuration, cmd, pc, result, telemetry, resolved, trace,
                   progress, tempVars, received, written, dlResolved,
                   extractVars, uncaught, uploadType>>

\* a chunk of the body arrives and pipe() hands it to the write stream
ReqData ==
    /\ reqState = "responded"
    /\ received < BodyLen
    /\ received' = received + 1
    /\ UNCHANGED <<configuration, cmd, pc, result, telemetry, resolved, trace,
                   progress, tempVars, reqState, bodyIsZip, written,
                   dlResolved, extractVars, uncaught, uploadType>>

\* the write stream of fs.createWriteStream writes one buffered chunk
WriteFlush ==
    /\ written < received
    /\ written' = written + 1
    /\ UNCHANGED <<configuration, cmd, pc, result, telemetry, resolved, trace,
                   progress, tempVars, reqState, bodyIsZip, received,
                   dlResolved, extractVars, uncaught, uploadType>>

\* request 'complete' event (the response has ended): resolve()
ReqComplete ==
    /\ reqState = "responded"
    /\ received = BodyLen
    /\ reqState' = "complete"
    /\ dlResolved' = TRUE
    /\ UNCHANGED <<configuration, cmd, pc, result, telemetry, resolved, trace,
                   progress, tempVars, bodyIsZip, received, written,
                   extractVars, uncaught, uploadType>>

\* request 'error' event: the handler throws out of the event callback.
\* Nothing settles the download promise.
ReqError ==
    /\ reqState \in {"started", "responded"}
    /\ reqState' = "error"
    /\ uncaught' = uncaught + 1
    /\ UNCHANGED <<configuration, cmd, pc, result, telemetry, resolved, trace,
                   progress, tempVars, bodyIsZip, received, written,
                   dlResolved, extractVars, uploadType>>

\* new AdmZip(file) parses the end-of-archive records of what the file holds
AdmZipOpens(chunksInFile, isZip) == isZip /\ chunksInFile = BodyLen

\* continuation of the download promise: report 70, new AdmZip(...) reads
\* function.zip as it is now, extractAllToAsync starts.  A throw of the
\* constructor rejects the extraction promise and reaches the catch.
ImportDownloadResolved ==
    /\ pc = "i_awaitDownload"
    /\ dlResolved
    /\ progress' = Append(progress, 70)
    /\ admZipRead' = written
    /\ IF AdmZipOpens(written, bodyIsZip)
       THEN /\ Log2("AdmZip", "extractAllToAsync")
            /\ extractState' = "running"
            /\ pc' = "i_awaitExtract"
            /\ UNCHANGED result
       ELSE /\ ImportErrorCaught("AdmZip:throw")
            /\ UNCHANGED extractState
    /\ UNCHANGED <<configuration, cmd, telemetry, resolved, tempVars,
                   downloadVars, destEntries, uncaught, uploadType>>

\* extractAllToAsync writes one entry into importLocation
ExtractEntry ==
    /\ extractState = "running"
    /\ destEntries < NumEntries
    /\ destEntries' = destEntries + 1
    /\ UNCHANGED <<configuration, cmd, pc, result, telemetry, resolved, trace,
                   progress, tempVars, downloadVars, admZipRead, extractState,
                   uncaught, uploadType>>

\* mutant of ExtractCallbackOk: the last increment fills the bar on its own
ExtractCallbackOkReports30 ==
    /\ extractState = "running"
    /\ destEntries = NumEntries
    /\ extractState' = "done"
    /\ progress' = Append(progress, 30)
    /\ UNCHANGED <<configuration, cmd, pc, result, telemetry, resolved, trace,
                   tempVars, downloadVars, admZipRead, destEntries, uncaught,
                   uploadType>>

\* mutant of ExtractCallbackOk: the last report takes progress back
ExtractCallbackOkReportsNegative ==
    /\ extractState = "running"
    /\ destEntries = NumEntries
    /\ extractState' = "done"
    /\ progress' = Append(progress, -10)
    /\ UNCHANGED <<configuration, cmd, pc, result, telemetry, resolved, trace,
                   tempVars, downloadVars, admZipRead, destEntries, uncaught,
                   uploadType>>

\* the completion callback without an error: report 10, resolve()
ExtractCallbackOk ==
    /\ extractState = "running"
    /\ destEntries = NumEntries
    /\ extractState' = "done"
    /\ progress' = Append(progress, 10)
    /\ UNCHANGED <<configuration, cmd, pc, result, telemetry, resolved, trace,
                   tempVars, downloadVars, admZipRead, destEntries, uncaught,
                   uploadType>>

\* the completion callback with an error: it throws out of the callback.
\* Nothing settles the extraction promise.
ExtractCallbackErr ==
    /\ extractState = "running"
    /\ destEntries < NumEntries
    /\ extractState' = "error"
    /\ uncaught' = uncaught + 1
    /\ Log("extractAllToAsync:error")
    /\ UNCHANGED <<configuration, cmd, pc, result, telemetry, resolved,
                   progress, tempVars, downloadVars, admZipRead, destEntries,
                   uploadType>>

\* downloadAndUnzipLambda returned; openLambdaFile up to its outcome
OpenLambdaFile ==
    /\ pc = "i_awaitExtract"
    /\ extractState = "done"
    /\ \E exists \in BOOLEAN, opened \in BOOLEAN :
          IF ~exists
          THEN /\ Log2("showWarningMessage", "openLambdaFile:throw")
               /\ result' = ImportCatchResult(FALSE)
               /\ pc' = "i_return"
          ELSE IF ~opened
               THEN /\ Log("openLambdaFile:throw")
                    /\ result' = ImportCatchResult(FALSE)
                    /\ pc' = "i_return"
               ELSE /\ Log("openLambdaFile")
                    /\ pc' = "i_addLaunchConfig"
                    /\ UNCHANGED result
    /\ UNCHANGED <<configuration, cmd, telemetry, resolved, progress, tempVars,
                   downloadVars, extractVars, uncaught, uploadType>>

\* addLaunchConfigEntry returned or threw
AddLaunchConfigEntry ==
    /\ pc = "i_addLaunchConfig"
    /\ \E ok \in BOOLEAN :
          IF ok
          THEN /\ Log("addLaunchConfigEntry")
               /\ result' = "Succeeded"
          ELSE /\ Log("addLaunchConfigEntry:throw")
               /\ result' = ImportCatchResult(FALSE)
    /\ pc' = "i_return"
    /\ UNCHANGED <<configuration, cmd, telemetry, resolved, progress, tempVars,
                   downloadVars, extractVars, uncaught, uploadType>>

\* runImportLambda returned: telemetry.recordLambdaImport({ result, ... })
RecordLambdaImport ==
    /\ pc = "i_return"
    /\ telemetry' = result
    /\ pc' = "done"
    /\ UNCHANGED <<configuration, cmd, result, resolved, trace, progress,
                   tempVars, downloadVars, extractVars, uncaught, uploadType>>

ImportNext ==
    \/ ImportLambdaCommand
    \/ ImportLocationSelected
    \/ ImportOverwriteAnswered
    \/ ImportWithProgress
    \/ ImportTempFolder
    \/ ImportGetFunction
    \/ ReqResponse
    \/ ReqData
    \/ WriteFlush
    \/ ReqComplete
    \/ ReqError
    \/ ImportDownloadResolved
    \/ ExtractEntry
    \/ ExtractCallbackOk
    \/ ExtractCallbackErr
    \/ OpenLambdaFile
    \/ AddLaunchConfigEntry
    \/ RecordLambdaImport


\* ------------------------------------------------------------ upload command
importVars == <<progress, downloadVars, extractVars, uncaught>>

\* uploadLambdaCommand -> selectUploadTypeAndConfirm up to the picker
UploadLambdaCommand ==
    /\ pc = "idle"
    /\ cmd' = "upload"
    /\ pc' = "u_pick"
    /\ Log("promptUser")
    /\ UNCHANGED <<configuration, result, telemetry, resolved, tempVars,
                   importVars, uploadType>>

\* the picker returned: nothing picked is 'Cancelled', otherwise the
\* publish confirmation is shown
UploadTypePicked ==
    /\ pc = "u_pick"
    /\ \E response \in {"none", "zip", "dir", "build"} :
          IF response = "none"
          THEN /\ pc' = "u_return"
               /\ result' = "Cancelled"
               /\ Log("picker:dismissed")
               /\ UNCHANGED uploadType
          ELSE /\ pc' = "u_confirm"
               /\ uploadType' = response
               /\ Log("prompt:publish")
               /\ UNCHANGED result
    /\ UNCHANGED <<configuration, cmd, telemetry, resolved, tempVars,
                   importVars>>

\* mutant of UploadConfirmAnswered: the answer is not looked at
UploadConfirmIgnored ==
    /\ pc = "u_confirm"
    /\ \E isConfirmed \in BOOLEAN :
          /\ pc' = "u_dialog"
          /\ Log2(IF isConfirmed THEN "publish:confirmed" ELSE "publish:declined",
                  "showOpenDialog")
          /\ UNCHANGED result
    /\ UNCHANGED <<configuration, cmd, telemetry, resolved, tempVars,
                   importVars, uploadType>>

\* the answer to the publish confirmation; a confirmed upload calls the
\* run* function of the picked item, which shows the open dialog
UploadConfirmAnswered ==
    /\ pc = "u_confirm"
    /\ \E isConfirmed \in BOOLEAN :
          IF isConfirmed
          THEN /\ pc' = "u_dialog"
               /\ Log2("publish:confirmed", "showOpenDialog")
               /\ UNCHANGED result
          ELSE /\ pc' = "u_return"
               /\ result' = "Cancelled"
               /\ Log("publish:declined")
    /\ UNCHANGED <<configuration, cmd, telemetry, resolved, tempVars,
                   importVars, uploadType>>

\* uploadZipBuffer up to the await of updateFunctionCode
CallUpdateFunctionCode ==
    /\ Log("updateFunctionCode")
    /\ pc' = "u_update"

\* runUploadLambdaZipFile after the dialog: fs.readFileSync is outside any
\* try block, so its throw rejects uploadLambdaCommand
RunUploadLambdaZipFile ==
    /\ pc = "u_dialog"
    /\ uploadType = "zip"
    /\ \E selected \in BOOLEAN, readable \in BOOLEAN :
          IF ~selected
          THEN /\ pc' = "u_return"
               /\ result' = "Cancelled"
               /\ UNCHANGED trace
          ELSE IF readable
               THEN /\ trace' = trace \o <<"readFileSync", "updateFunctionCode">>
                    /\ pc' = "u_update"
                    /\ UNCHANGED result
               ELSE /\ Log("readFileSync:throw")
                    /\ pc' = "rejected"
                    /\ UNCHANGED result
    /\ UNCHANGED <<configuration, cmd, telemetry, resolved, tempVars,
                   importVars, uploadType>>

\* mutant of ZipAndUploadDirectory: the upload does not wait for the packing
\* promise, so it is called whether or not packing produced the buffer
ZipAndUploadWithoutBuffer(packs) ==
    /\ trace' = trace \o <<"updateFunctionCode", IF packs THEN "pack" ELSE "pack:throw">>
    /\ pc' = "u_update"
    /\ UNCHANGED result

\* zipAndUploadDirectory: the packing promise, then uploadZipBuffer up to
\* its await; a throw of addLocalFolder/toBuffer is caught and shown
ZipAndUploadDirectory(packs) ==
    IF packs
    THEN /\ trace' = trace \o <<"pack", "updateFunctionCode">>
         /\ pc' = "u_update"
         /\ UNCHANGED result
    ELSE /\ Log2("pack:throw", "showErrorMessage")
         /\ pc' = "u_return"
         /\ result' = "Failed"

\* runUploadLambdaDirectory after the dialog
RunUploadLambdaDirectory ==
    /\ pc = "u_dialog"
    /\ uploadType = "dir"
    /\ \E selected \in BOOLEAN, packs \in BOOLEAN :
          IF ~selected
          THEN /\ pc' = "u_return"
               /\ result' = "Cancelled"
               /\ UNCHANGED trace
          ELSE ZipAndUploadDirectory(packs)
    /\ UNCHANGED <<configuration, cmd, telemetry, resolved, tempVars,
                   importVars, uploadType>>

\* mutant of HandlerCheck: a throw of the resolver is not caught
HandlerCheckThrowEscapes(r, exists) ==
    IF r.state = "threw" THEN "rejected"
    ELSE IF exists THEN "proceed" ELSE "prompt"

\* mutant of HandlerCheck: a missing handler file is not reported
HandlerCheckNeverPrompts(r, exists) == "proceed"

\* the try block of the handler check: what follows the resolver's outcome
\* r and the outcome of fileExists(handlerFile)
HandlerCheck(r, exists) ==
    IF r.state = "threw" THEN "proceed"
    ELSE IF exists THEN "proceed" ELSE "prompt"

\* runUploadLambdaWithSamBuild after the dialog: the handler check up to
\* its confirmation, or up to makeTemporaryToolkitFolder
RunUploadLambdaWithSamBuild ==
    /\ pc = "u_dialog"
    /\ uploadType = "build"
    /\ \E selected \in BOOLEAN, exists \in BOOLEAN :
          IF ~selected
          THEN /\ pc' = "u_return"
               /\ result' = "Cancelled"
               /\ UNCHANGED <<trace, resolved>>
          ELSE /\ resolved' = getLambdaFileNameFromHandler(configuration)
               /\ UNCHANGED result
               /\ LET next == HandlerCheck(resolved', exists)
                  IN  CASE next = "prompt" ->
                              /\ Log2("fileExists:false", "prompt:handlerNotFound")
                              /\ pc' = "u_handlerConfirm"
                        [] next = "proceed" ->
                              /\ Log(IF resolved'.state = "threw"
                                     THEN "handlerCheck:ignored"
                                     ELSE IF exists THEN "fileExists:true"
                                          ELSE "fileExists:false")
                              /\ pc' = "u_mkTemp"
                        [] OTHER ->
                              /\ pc' = "rejected"
                              /\ UNCHANGED trace
    /\ UNCHANGED <<configuration, cmd, telemetry, tempVars, importVars,
                   uploadType>>

\* the answer to the missing-handler confirmation
HandlerConfirmAnswered ==
    /\ pc = "u_handlerConfirm"
    /\ \E isConfirmed \in BOOLEAN :
          IF isConfirmed
          THEN /\ pc' = "u_mkTemp"
               /\ Log("handlerNotFound:confirmed")
               /\ UNCHANGED result
          ELSE /\ pc' = "u_return"
               /\ Log("handlerNotFound:declined")
               /\ result' = "Cancelled"
    /\ UNCHANGED <<configuration, cmd, telemetry, resolved, tempVars,
                   importVars, uploadType>>

\* the catch of runUploadLambdaWithSamBuild
SamBuildCatch(e) ==
    /\ Log2(e, "showErrorMessage")
    /\ pc' = "u_return"
    /\ result' = "Failed"

\* getSamCliContext, makeTemporaryToolkitFolder, addFolder, then the
\* template generator is awaited
SamBuildTempFolder ==
    /\ pc = "u_mkTemp"
    /\ \E ok \in BOOLEAN :
          IF ok
          THEN /\ tempFolder' = ThisFolder
               /\ registry' = addFolder(registry, ThisFolder)
               /\ UNCHANGED otherOp
               /\ trace' = trace \o <<"makeTemporaryToolkitFolder", "addFolder",
                                      "generate">>
               /\ pc' = "u_generate"
               /\ UNCHANGED result
          ELSE /\ SamBuildCatch("makeTemporaryToolkitFolder:throw")
               /\ UNCHANGED tempVars
    /\ UNCHANGED <<configuration, cmd, telemetry, resolved, importVars,
                   uploadType>>

\* SamTemplateGenerator.generate returned or threw; then the build is invoked
SamBuildGenerate ==
    /\ pc = "u_generate"
    /\ \E ok \in BOOLEAN :
          IF ok
          THEN /\ Log("build")
               /\ pc' = "u_build"
               /\ UNCHANGED result
          ELSE SamBuildCatch("generate:throw")
    /\ UNCHANGED <<configuration, cmd, telemetry, resolved, tempVars,
                   importVars, uploadType>>

\* mutant of SamBuildExecute: the outcome of the build is not looked at
SamBuildExecuteIgnoresFailure ==
    /\ pc = "u_build"
    /\ \E built \in BOOLEAN, packs \in BOOLEAN :
          /\ trace' = trace \o <<IF built THEN "build:ok" ELSE "build:fail">>
                            \o (IF packs THEN <<"pack", "updateFunctionCode">>
                                ELSE <<"pack:throw", "showErrorMessage">>)
          /\ pc' = IF packs THEN "u_update" ELSE "u_return"
          /\ result' = IF packs THEN result ELSE "Failed"
    /\ UNCHANGED <<configuration, cmd, telemetry, resolved, tempVars,
                   importVars, uploadType>>

\* SamCliBuildInvocation.execute returned or threw; a built directory goes
\* to zipAndUploadDirectory
SamBuildExecute ==
    /\ pc = "u_build"
    /\ \E built \in BOOLEAN, packs \in BOOLEAN :
          IF built
          THEN /\ trace' = trace \o <<"build:ok">>
                              \o (IF packs THEN <<"pack", "updateFunctionCode">>
                                  ELSE <<"pack:throw", "showErrorMessage">>)
               /\ pc' = IF packs THEN "u_update" ELSE "u_return"
               /\ result' = IF packs THEN result ELSE "Failed"
          ELSE SamBuildCatch("build:fail")
    /\ UNCHANGED <<configuration, cmd, telemetry, resolved, tempVars,
                   importVars, uploadType>>

\* mutant of UploadZipBuffer: a failed updateFunctionCode is tried once more
UploadZipBufferRetries ==
    /\ pc = "u_update"
    /\ \E ok \in BOOLEAN :
          IF ok
          THEN /\ Log("updateFunctionCode:ok")
               /\ result' = "Succeeded"
               /\ pc' = "u_return"
          ELSE IF Count("updateFunctionCode") < 2
               THEN /\ Log2("updateFunctionCode:throw", "updateFunctionCode")
                    /\ pc' = "u_update"
                    /\ UNCHANGED result
               ELSE /\ Log2("updateFunctionCode:throw", "showErrorMessage")
                    /\ result' = "Failed"
                    /\ pc' = "u_return"
    /\ UNCHANGED <<configuration, cmd, telemetry, resolved, tempVars,
                   importVars, uploadType>>

\* mutant of UploadZipBuffer: the catch returns 'Succeeded'
UploadZipBufferSwallowsError ==
    /\ pc = "u_update"
    /\ \E ok \in BOOLEAN :
          IF ok
          THEN /\ Log("updateFunctionCode:ok")
               /\ result' = "Succeeded"
          ELSE /\ Log2("updateFunctionCode:throw", "showErrorMessage")
               /\ result' = "Succeeded"
    /\ pc' = "u_return"
    /\ UNCHANGED <<configuration, cmd, telemetry, resolved, tempVars,
                   importVars, uploadType>>

\* updateFunctionCode returned or threw (the catch of uploadZipBuffer)
UploadZipBuffer ==
    /\ pc = "u_update"
    /\ \E ok \in BOOLEAN :
          IF ok
          THEN /\ Log("updateFunctionCode:ok")
               /\ result' = "Succeeded"
          ELSE /\ Log2("updateFunctionCode:throw", "showErrorMessage")
               /\ result' = "Failed"
    /\ pc' = "u_return"
    /\ UNCHANGED <<configuration, cmd, telemetry, resolved, tempVars,
                   importVars, uploadType>>

\* selectUploadTypeAndConfirm returned: telemetry.recordLambdaUpdateFunctionCode
RecordLambdaUpdateFunctionCode ==
    /\ pc = "u_return"
    /\ telemetry' = result
    /\ pc' = "done"
    /\ UNCHANGED <<configuration, cmd, result, resolved, trace, tempVars,
                   importVars, uploadType>>

UploadNext ==
    \/ UploadLambdaCommand
    \/ UploadTypePicked
    \/ UploadConfirmAnswered
    \/ RunUploadLambdaZipFile
    \/ RunUploadLambdaDirectory
    \/ RunUploadLambdaWithSamBuild
    \/ HandlerConfirmAnswered
    \/ SamBuildTempFolder
    \/ SamBuildGenerate
    \/ SamBuildExecute
    \/ UploadZipBuffer
    \/ RecordLambdaUpdateFunctionCode

\* ------------------------------------------------- a second command in flight
\* The steps of downloadAndUnzipLambda and of runUploadLambdaWithSamBuild on
\* the temporary workspace are the same three: await
\* makeTemporaryToolkitFolder, addFolder in the same turn, write afterwards.
thisVars == <<configuration, cmd, pc, result, telemetry, resolved, trace,
              progress, tempFolder, downloadVars, extractVars, uncaught,
              uploadType>>

\* the second command reaches its await of makeTemporaryToolkitFolder
OtherMakeTemporaryFolder ==
    /\ otherOp = "idle"
    /\ otherOp' = "mkTemp"
    /\ UNCHANGED <<thisVars, registry>>

\* makeTemporaryToolkitFolder returned to the second command, which
\* registers the folder before it yields again, or it threw
OtherAddFolder ==
    /\ otherOp = "mkTemp"
    /\ \E ok \in BOOLEAN :
          IF ok
          THEN /\ otherOp' = "registered"
               /\ registry' = addFolder(registry, OtherFolder)
          ELSE /\ otherOp' = "noFolder"
               /\ UNCHANGED registry
    /\ UNCHANGED thisVars

\* the second command writes function.zip or template.yaml into its folder
OtherWrite ==
    /\ otherOp = "registered"
    /\ otherOp' = "written"
    /\ UNCHANGED <<thisVars, registry>>

OtherNext ==
    \/ OtherMakeTemporaryFolder
    \/ OtherAddFolder
    \/ OtherWrite

\* ---------------------------------------------------------- specification
Next == ImportNext \/ UploadNext \/ OtherNext

Spec == Init /\ [][Next]_vars

\* the event loop runs every continuation and every event that is ready
FairSpec == Spec /\ WF_vars(Next)


\* ------------------------------------------------------------------ claims
Terminal == pc \in {"done", "rejected"}

\* C1: the import returns 'Succeeded' only if the download completed without
\* a transport error, the archive read was the whole body, and every entry
\* was extracted without error; a failed fetch never returns 'Succeeded'.
C1_SucceededOnlyAfterDownloadAndExtract ==
    (cmd = "import" /\ result = "Succeeded") =>
        /\ reqState = "complete"
        /\ bodyIsZip
        /\ admZipRead = BodyLen
        /\ extractState = "done"
        /\ destEntries = NumEntries

C1_Witness ==
    /\ cmd = "import"
    /\ telemetry = "Succeeded"
    /\ reqState = "complete"
    /\ destEntries = NumEntries

\* C2: a transport error of the download (the request's 'error' event) leads
\* to the import terminating with 'Failed' after an error message was shown.
C2_TransportErrorEndsFailed ==
    (reqState = "error") ~> (result = "Failed" /\ Has("showErrorMessage"))

\* C3: a failed extraction (the AdmZip constructor throws, or the completion
\* callback gets an error) leads to the import terminating with 'Failed'.
C3_ExtractionFailureEndsFailed ==
    (Has("AdmZip:throw") \/ extractState = "error") ~> (result = "Failed")

\* C4: the extract step reads function.zip only when every chunk of the
\* response body has been written to it.
C4_ExtractAfterFetchComplete ==
    admZipRead # -1 => admZipRead = BodyLen

\* C5: in Strategy C a failed build is never followed by updateFunctionCode
\* and the attempt ends with 'Failed'.
C5_FailedBuildNeverDeploys ==
    Has("build:fail") =>
        /\ ~Has("updateFunctionCode")
        /\ result = "Failed"

C5_Witness ==
    /\ uploadType = "build"
    /\ Has("build:fail")
    /\ telemetry = "Failed"

\* C6: in Strategy C with a supported runtime and a missing handler file the
\* confirmation is shown, and shown before the build is invoked; a declined
\* confirmation invokes neither build nor updateFunctionCode and is 'Cancelled'.
C6_MissingHandlerPromptBeforeBuild ==
    /\ (uploadType = "build" /\ resolved.state = "ok" /\ Has("fileExists:false")) =>
          /\ Has("prompt:handlerNotFound")
          /\ Has("build") =>
                FirstIndex("prompt:handlerNotFound") < FirstIndex("build")
    /\ Has("handlerNotFound:declined") =>
          /\ ~Has("build")
          /\ ~Has("updateFunctionCode")
          /\ result = "Cancelled"

C6_Witness ==
    /\ uploadType = "build"
    /\ resolved.state = "ok"
    /\ Has("handlerNotFound:declined")
    /\ telemetry = "Cancelled"

\* C7: once download and extraction have succeeded the import reports
\* 'Succeeded', also when openLambdaFile or addLaunchConfigEntry fails.
C7_PostImportFailureStillSucceeded ==
    /\ (cmd = "import" /\ extractState = "done" /\ result # "none") =>
          result = "Succeeded"
    /\ (Has("openLambdaFile:throw") \/ Has("addLaunchConfigEntry:throw")) =>
          result = "Succeeded"

C7_Witness ==
    /\ cmd = "import"
    /\ Has("addLaunchConfigEntry:throw")
    /\ telemetry = "Succeeded"

\* C8: an unsupported runtime does not stop the import: the download and
\* extraction are still entered and the command is not rejected.
C8_UnsupportedRuntimeStillImports ==
    (cmd = "import" /\ resolved.state = "threw") =>
        /\ pc # "rejected"
        /\ Has("downloadAndUnzipLambda")

\* C9: in Strategy C an unsupported runtime skips the handler check without
\* a prompt, and the pipeline goes on to the manifest and the build: it ends
\* only after the build was invoked or one of the steps before it threw.
C9_UnsupportedRuntimeSkipsHandlerCheck ==
    (cmd = "upload" /\ resolved.state = "threw") =>
        /\ ~Has("prompt:handlerNotFound")
        /\ Has("handlerCheck:ignored")
        /\ result # "Cancelled"
        /\ pc \in {"u_mkTemp", "u_generate", "u_build", "u_update", "u_return",
                   "done"}
        /\ pc \in {"u_build", "u_update", "u_return", "done"} =>
              \/ Has("build")
              \/ Has("makeTemporaryToolkitFolder:throw")
              \/ Has("generate:throw")

C9_Witness ==
    /\ cmd = "upload"
    /\ resolved.state = "threw"
    /\ Has("build")
    /\ pc = "done"

\* the handler up to, and without, its last dot; empty when it has no dot
StrippedHandler(h) ==
    LET dots == {i \in 1..Len(h) : h[i] = "."}
    IN  IF dots = {} THEN <<>>
        ELSE SubSeq(h, 1, (CHOOSE i \in dots : \A j \in dots : j <= i) - 1)

\* C10: for a runtime of the Python or NodeJS family the resolver returns the
\* handler without its last dot-separated segment, followed by ".py" for
\* Python and ".js" for NodeJS.
C10_FileNameStripsLastSegment ==
    (resolved.state # "unset" /\ getFamily(configuration.Runtime) \in {"Python", "NodeJS"}) =>
        /\ resolved.state = "ok"
        /\ resolved.fileName =
              StrippedHandler(configuration.Handler)
                 \o (IF getFamily(configuration.Runtime) = "Python"
                     THEN <<".", "p", "y">> ELSE <<".", "j", "s">>)

C10_Witness ==
    /\ configuration = [Handler |-> <<"a", ".", "b">>, Runtime |-> "nodejs12.x"]
    /\ resolved = [state |-> "ok", fileName |-> <<"a", ".", "j", "s">>, error |-> ""]


\* C11: for a runtime whose family is neither Python nor NodeJS the resolver
\* throws an error that names the runtime identifier and returns no file
\* name, whatever the handler is.
C11_UnsupportedRuntimeThrows ==
    (resolved.state # "unset" /\ getFamily(configuration.Runtime) \notin {"Python", "NodeJS"}) =>
        /\ resolved.state = "threw"
        /\ resolved.fileName = <<>>
        /\ resolved.error = configuration.Runtime

C11_Witness ==
    /\ configuration = [Handler |-> <<"a", ".", "b">>, Runtime |-> "ruby2.7"]
    /\ resolved = [state |-> "threw", fileName |-> <<>>, error |-> "ruby2.7"]


RECURSIVE SumSeq(_)
\* what the progress bar shows after the increments of q
SumSeq(q) == IF q = <<>> THEN 0 ELSE Head(q) + SumSeq(Tail(q))

\* C12: on every path of the import the increments reported so far sum to at
\* most 100 and none of them is negative.
C12_ProgressWithinBudget ==
    /\ SumSeq(progress) <= 100
    /\ \A i \in 1..Len(progress) : progress[i] >= 0

C12_Witness ==
    /\ cmd = "import"
    /\ extractState = "done"
    /\ SumSeq(progress) = 90

\* C13 as stated: each reported increment is at least the increment reported
\* before it.
C13_IncrementsNonDecreasing ==
    \A i \in 2..Len(progress) : progress[i] >= progress[i - 1]

\* C13 as amended: every report adds one positive increment to the ones
\* reported before, so the cumulative progress never goes down.
C13_CumulativeProgressNonDecreasing ==
    [][progress' # progress =>
          /\ Len(progress') = Len(progress) + 1
          /\ SubSeq(progress', 1, Len(progress)) = progress
          /\ progress'[Len(progress')] > 0
          /\ SumSeq(progress') > SumSeq(progress)]_vars

C13_Witness ==
    /\ cmd = "import"
    /\ progress = <<10, 70, 10>>
    /\ telemetry = "Succeeded"

\* C14 as stated: an increment is reported on the request's 'response' event
\* and another when the download completes.
C14_IncrementOnResponseAndCompletion ==
    [][/\ (reqState = "started" /\ reqState' = "responded") =>
              Len(progress') = Len(progress) + 1
       /\ (pc = "i_awaitDownload" /\ pc' # pc) =>
              Len(progress') = Len(progress) + 1]_vars

\* C14 as amended: an increment of 10 is reported when the request is
\* started, none on the 'response' event, and an increment of 70 when the
\* command resumes after the download completed.
C14_IncrementOnStartAndCompletion ==
    [][/\ (reqState = "idle" /\ reqState' = "started") =>
              progress' = Append(progress, 10)
       /\ (reqState = "started" /\ reqState' = "responded") =>
              progress' = progress
       /\ (pc = "i_awaitDownload" /\ pc' # pc) =>
              (reqState = "complete" /\ progress' = Append(progress, 70))]_vars

C14_Witness ==
    /\ reqState = "complete"
    /\ pc = "i_awaitExtract"
    /\ progress = <<10, 70>>


\* C15: nothing is retried: in one command updateFunctionCode, the build,
\* getFunction and the artifact download are each invoked at most once.
C15_NoAutomaticRetry ==
    /\ Count("updateFunctionCode") <= 1
    /\ Count("build") <= 1
    /\ Count("getFunction") <= 1
    /\ Count("request.get") <= 1

C15_Witness ==
    /\ cmd = "upload"
    /\ Has("updateFunctionCode:throw")
    /\ Count("updateFunctionCode") = 1
    /\ pc = "done"

\* C16: in every strategy the upload result is 'Succeeded' exactly when
\* updateFunctionCode was invoked and returned without error; when it throws
\* the message is shown and the result is 'Failed'.
C16_SucceededIffUpdateCompleted ==
    cmd = "upload" =>
        /\ result = "Succeeded" <=> Has("updateFunctionCode:ok")
        /\ Has("updateFunctionCode:ok") => Has("updateFunctionCode")
        /\ Has("updateFunctionCode:throw") =>
              (result = "Failed" /\ Has("showErrorMessage"))

C16_Witness ==
    /\ cmd = "upload"
    /\ Has("updateFunctionCode:throw")
    /\ telemetry = "Failed"

\* a fetch, unpack, read, build, pack or deploy step has failed
PipelineFailure ==
    \/ Has("makeTemporaryToolkitFolder:throw")
    \/ Has("getFunction:throw")
    \/ reqState = "error"
    \/ Has("AdmZip:throw")
    \/ extractState = "error"
    \/ Has("readFileSync:throw")
    \/ Has("generate:throw")
    \/ Has("build:fail")
    \/ Has("pack:throw")
    \/ Has("updateFunctionCode:throw")

\* C17: a command that has ended on an error path has shown exactly one
\* error message, and no error path ever shows more than one.
C17_ExactlyOneErrorMessage ==
    /\ Count("showErrorMessage") <= 1
    /\ (PipelineFailure /\ Terminal) => Count("showErrorMessage") = 1

\* C18: in Strategy A an unreadable zip file ends the upload with the result
\* 'Failed' and updateFunctionCode is not invoked.
C18_UnreadableZipEndsFailed ==
    Has("readFileSync:throw") =>
        /\ result = "Failed"
        /\ ~Has("updateFunctionCode")

\* C19: in strategies B and C updateFunctionCode is invoked only after the
\* directory was packed into the whole buffer; when packing throws it is
\* never invoked and the attempt ends with 'Failed'.
C19_DeployOnlyAfterPack ==
    /\ (uploadType \in {"dir", "build"} /\ Has("updateFunctionCode")) =>
          /\ Has("pack")
          /\ FirstIndex("pack") < FirstIndex("updateFunctionCode")
    /\ Has("pack:throw") =>
          /\ ~Has("updateFunctionCode")
          /\ result = "Failed"

C19_Witness ==
    /\ uploadType = "build"
    /\ Has("pack:throw")
    /\ telemetry = "Failed"


\* the folder exists: makeTemporaryToolkitFolder returned it
Created(folder) ==
    IF folder = ThisFolder THEN tempFolder = ThisFolder
    ELSE otherOp \in {"registered", "written"}

\* the operation has written into its folder (or opened a file in it)
WrittenInto(folder) ==
    IF folder = ThisFolder THEN reqState # "idle" \/ Has("generate")
    ELSE otherOp = "written"

\* C20: under every interleaving of two commands, a temporary folder is in
\* the registry from the step it is created in and before anything is
\* written into it, and no step takes an entry out of the registry.
C20_RegistryAdditiveAndComplete ==
    /\ [](\A folder \in {ThisFolder, OtherFolder} :
             /\ Created(folder) => folder \in registry
             /\ WrittenInto(folder) => folder \in registry)
    /\ [](Has("generate") => (Has("addFolder") /\ FirstIndex("addFolder") < FirstIndex("generate")))
    /\ [](Has("request.get") => (Has("addFolder") /\ FirstIndex("addFolder") < FirstIndex("request.get")))
    /\ [][registry \subseteq registry']_vars

C20_Witness ==
    /\ WrittenInto(ThisFolder)
    /\ WrittenInto(OtherFolder)
    /\ registry = {ThisFolder, OtherFolder}


\* the first position of e in the trace comes after the publish confirmation
\* was answered with yes
AfterPublishConfirmed(e) ==
    Has(e) => (Has("publish:confirmed")
               /\ FirstIndex("publish:confirmed") < FirstIndex(e))

\* C21: in the upload command the file selection, the build and
\* updateFunctionCode come only after an upload type was picked and the
\* publish prompt was confirmed; a dismissed picker or a declined prompt
\* gives 'Cancelled' without file selection, build or updateFunctionCode.
C21_UploadOnlyAfterPickAndConfirm ==
    cmd = "upload" =>
        /\ (Has("showOpenDialog") \/ Has("build") \/ Has("updateFunctionCode")) =>
              (uploadType # "none" /\ Has("prompt:publish"))
        /\ AfterPublishConfirmed("showOpenDialog")
        /\ AfterPublishConfirmed("readFileSync")
        /\ AfterPublishConfirmed("build")
        /\ AfterPublishConfirmed("pack")
        /\ AfterPublishConfirmed("updateFunctionCode")
        /\ (Has("picker:dismissed") \/ Has("publish:declined")) =>
              /\ result = "Cancelled"
              /\ ~Has("showOpenDialog")
              /\ ~Has("build")
              /\ ~Has("updateFunctionCode")

C21_Witness ==
    /\ cmd = "upload"
    /\ uploadType = "build"
    /\ Has("publish:declined")
    /\ telemetry = "Cancelled"

\* C22: an import that finds no workspace folder, gets no location, or whose
\* overwrite confirmation is declined gives 'Cancelled', and it creates no
\* temporary folder, starts no download and writes nothing to the
\* destination directory.
C22_CancelledImportLeavesNoTrace ==
    (\/ Has("showErrorMessage:noWorkspaceFolders")
     \/ Has("location:none")
     \/ Has("overwrite:declined")) =>
        /\ result = "Cancelled"
        /\ tempFolder = 0
        /\ ThisFolder \notin registry
        /\ ~Has("downloadAndUnzipLambda")
        /\ ~Has("getFunction")
        /\ reqState = "idle"
        /\ written = 0
        /\ extractState = "none"
        /\ destEntries = 0

C22_Witness ==
    /\ cmd = "import"
    /\ Has("overwrite:declined")
    /\ telemetry = "Cancelled"

====
